---- MODULE Spec2Model ----
(***************************************************************************)
(* Model of the shop bot's ledger, catalog and purchase pipeline           *)
(* (src/bot.py).  The bot is one asyncio event loop over one sqlite        *)
(* database: a handler runs without interruption from one `await` to the   *)
(* next, so every action below is the code between two awaits of one       *)
(* handler, and every sqlite transaction (`with db() as conn: ...          *)
(* conn.commit()`) takes effect as a whole or not at all.                  *)
(***************************************************************************)
EXTENDS Integers, Sequences, FiniteSets, TLC

\* ---------------------------------------------------------------- bounds
MaxOps == 2            \* commands (admin, transfer, balance) issued in one run
MaxCalls == 3          \* direct calls of the ledger store in one run of SpecLedger

Users == {1, 2, 3}     \* discord ids
Buyers == {1, 2}       \* the ids that open the shop menu
Prices == {0, 2}       \* to_satang(price_thb) of the admin item commands
Deltas == {-1, 2}      \* to_satang(amount_thb) of admin_add_balance
Amounts == {0, 1, 2}   \* to_satang(amount_thb) of the transfer commands (amount_thb > 0)
AnyAmounts == {-1, 0, 1, 2}  \* amount_cents of a direct transfer_balance call
AnyDeltas == {-1, 1, 2}      \* cents of a direct add_balance call
Dest == {"dm", "channel"}
MaxAdminCalls == 3      \* commands of SpecAdmin
MaxRows == 3            \* rows of table purchases a history call is made on
MaxCatalogCalls == 4    \* direct calls of the catalog store in one run of SpecCatalog
Procs == {"p1", "p2"}   \* purchase interactions (a menu selection and its confirm)
ItemIds == 1..MaxOps   \* AUTOINCREMENT ids that MaxOps inserts can assign

MAX_UPLOAD_BYTES == 24 * 1024 * 1024
\* sizes os.path.getsize can report: at the limit, and over it
Sizes == {MAX_UPLOAD_BYTES, MAX_UPLOAD_BYTES + 1}

\* the limit history_btn passes to get_my_purchases, and the one of history_cmd
HISTORY_BTN_LIMIT == 20
HISTORY_CMD_LIMIT == 50

VARIABLES
    users,       \* table users: discord_id -> balance_cents (DOMAIN = the rows)
    items,       \* table items: id -> [price_cents, is_active]
    item_seq,    \* sqlite_sequence of items (AUTOINCREMENT)
    purchases,   \* table purchases, in id order
    transfers,   \* table transfers, in id order
    shop_open,   \* settings['shop_open'] = '1'
    proc,        \* the purchase interactions: position and locals of each
    topups,      \* history: per user, the number n of add_balance calls made for a
                 \* top-up and the sum of their cents
    nops,        \* history: commands (Spec) or ledger calls (SpecLedger) so far
    ret,         \* SpecLedger: what the last transfer_balance call was given and
                 \* returned, n = its call number, oks = calls that returned True
    hist,        \* SpecHistory: the arguments of the last get_my_purchases call
                 \* and the rows it returned (n = 0: no call yet)
    admins,      \* table admins: the discord_ids granted
    gsettings,   \* table guild_settings: the <<guild_id, key>> that have a value
    adm          \* SpecAdmin: the last command, its caller and its arguments

\* what the direct calls of the smaller specifications were given and returned
admin_vars == <<admins, gsettings, adm>>
call_vars == <<hist, admin_vars>>
vars == <<users, items, item_seq, purchases, transfers, shop_open, proc, topups, nops, ret,
          call_vars>>
db_vars == <<users, items, item_seq, purchases, transfers, shop_open>>

\* ---------------------------------------------------------------- helpers
EmptyTbl == [x \in {} |-> 0]

\* ---------------------------------------------------------------- ledger store
\* INSERT OR REPLACE: the row is written anew, balance_cents DEFAULT 0
ensure_user_replace(tbl, id) == [x \in DOMAIN tbl \cup {id} |-> IF x = id THEN 0 ELSE tbl[x]]

\* INSERT OR IGNORE INTO users (discord_id) VALUES (?): balance_cents DEFAULT 0
ensure_user(tbl, id) == IF id \in DOMAIN tbl THEN tbl ELSE tbl @@ (id :> 0)

\* SELECT balance_cents ...; row["balance_cents"] if row else 0
select_balance(tbl, id) == IF id \in DOMAIN tbl THEN tbl[id] ELSE 0

\* UPDATE users SET balance_cents = balance_cents + ? WHERE discord_id=?
update_balance(tbl, id, cents) ==
    IF id \in DOMAIN tbl THEN [tbl EXCEPT ![id] = @ + cents] ELSE tbl

\* get_balance: the table it leaves, and the value it returns
get_balance_tbl(tbl, id) == ensure_user(tbl, id)
get_balance(tbl, id) == select_balance(get_balance_tbl(tbl, id), id)

\* add_balance without its ensure_user
add_balance_no_ensure(tbl, id, cents) == update_balance(tbl, id, cents)

add_balance(tbl, id, cents) == update_balance(ensure_user(tbl, id), id, cents)

\* now_utc_iso: the wall clock, kept as the number of commands handled so far;
\* it never runs backwards, and two handlers may read the same value
now_utc_iso == nops

\* add_purchase without its INSERT
add_purchase_rows_skipped(rows, id, item_id, price_cents) == rows

\* add_purchase: one transaction, the INSERT and the UPDATE
add_purchase_rows(rows, id, item_id, price_cents) ==
    Append(rows, [discord_id |-> id, item_id |-> item_id, price_cents |-> price_cents,
                  created_at |-> now_utc_iso])
\* add_purchase committing its INSERT without its UPDATE
add_purchase_users_insert_only(tbl, id, price_cents) == tbl

add_purchase_users(tbl, id, price_cents) == update_balance(tbl, id, 0 - price_cents)

\* `if amount_cents <= 0` of transfer_balance
invalid_amount(amount_cents) == amount_cents <= 0

\* transfer_balance without its self-transfer check
self_transfer_unchecked(from_id, to_id) == FALSE

\* `if from_id == to_id` of transfer_balance
self_transfer(from_id, to_id) == from_id = to_id

\* the balance check refusing a transfer of the whole balance
insufficient_or_equal(bal, amount_cents) == bal <= amount_cents

\* `if bal < amount_cents` of transfer_balance
insufficient(bal, amount_cents) == bal < amount_cents

\* the transaction debiting the sender without crediting the receiver
transfer_apply_debit_only(tbl, from_id, to_id, amount_cents) ==
    update_balance(tbl, from_id, 0 - amount_cents)

\* the two UPDATEs of transfer_balance's transaction
transfer_apply(tbl, from_id, to_id, amount_cents) ==
    update_balance(update_balance(tbl, from_id, 0 - amount_cents), to_id, amount_cents)

\* transfer_balance debiting the sender before it checks the balance
transfer_balance_debit_first(tbl, xfers, from_id, to_id, amount_cents) ==
    IF invalid_amount(amount_cents) THEN
        [ok |-> FALSE, reason |-> "amount", users |-> tbl, transfers |-> xfers]
    ELSE IF self_transfer(from_id, to_id) THEN
        [ok |-> FALSE, reason |-> "self", users |-> tbl, transfers |-> xfers]
    ELSE
        LET t1 == ensure_user(ensure_user(tbl, from_id), to_id)
            bal == select_balance(t1, from_id)
            t2 == update_balance(t1, from_id, 0 - amount_cents)
        IN  IF insufficient(bal, amount_cents) THEN
                [ok |-> FALSE, reason |-> "insufficient", users |-> t2, transfers |-> xfers]
            ELSE
                [ok |-> TRUE, reason |-> "ok",
                 users |-> update_balance(t2, to_id, amount_cents),
                 transfers |-> Append(xfers, [from_id |-> from_id, to_id |-> to_id,
                                              amount_cents |-> amount_cents])]

\* transfer_balance: what it returns and the tables it leaves
transfer_balance(tbl, xfers, from_id, to_id, amount_cents) ==
    IF invalid_amount(amount_cents) THEN
        [ok |-> FALSE, reason |-> "amount", users |-> tbl, transfers |-> xfers]
    ELSE IF self_transfer(from_id, to_id) THEN
        [ok |-> FALSE, reason |-> "self", users |-> tbl, transfers |-> xfers]
    ELSE
        LET t1 == ensure_user(ensure_user(tbl, from_id), to_id)
            bal == select_balance(t1, from_id)
        IN  IF insufficient(bal, amount_cents) THEN
                [ok |-> FALSE, reason |-> "insufficient", users |-> t1, transfers |-> xfers]
            ELSE
                [ok |-> TRUE, reason |-> "ok",
                 users |-> transfer_apply(t1, from_id, to_id, amount_cents),
                 transfers |-> Append(xfers, [from_id |-> from_id, to_id |-> to_id,
                                              amount_cents |-> amount_cents])]

\* ---------------------------------------------------------------- purchase history
RECURSIVE newest_first(_)
\* ORDER BY p.id DESC: the ids of S, the largest first
newest_first(S) ==
    IF S = {} THEN <<>>
    ELSE LET m == CHOOSE x \in S : \A y \in S : y <= x
         IN  <<m>> \o newest_first(S \ {m})

\* get_my_purchases: purchases JOIN items ON p.item_id = i.id WHERE
\* p.discord_id = ?, newest first, at most `limit` rows.  The join is an inner
\* join: a purchase whose item_id matches no row of items gives no row.
get_my_purchases(rows, tbl, discord_id, limit) ==
    LET ids == newest_first({k \in 1..Len(rows) :
                                /\ rows[k].discord_id = discord_id
                                /\ rows[k].item_id \in DOMAIN tbl})
        \* LIMIT ?: a negative limit is no limit
        n == IF limit < 0 \/ Len(ids) < limit THEN Len(ids) ELSE limit
    IN  [j \in 1..n |-> [id |-> ids[j], created_at |-> rows[ids[j]].created_at,
                          price_cents |-> rows[ids[j]].price_cents,
                          item_id |-> rows[ids[j]].item_id]]

\* ---------------------------------------------------------------- admins
\* ADMIN_USER_IDS of the environment, read once at start
ADMIN_ENV_IDS == {2}

\* guild.owner_id as Discord reports it; guild 0 stands for no guild (a DM)
Guilds == {1, 2}
owner_id(guild) == guild

\* the admin test without the admins table
is_admin_user_env_only(user_id, tbl) == user_id \in ADMIN_ENV_IDS

\* is_admin_user: in ADMIN_ENV_IDS, or a row of table admins
is_admin_user(user_id, tbl) == user_id \in ADMIN_ENV_IDS \/ user_id \in tbl

\* `inter.guild is not None and inter.user.id == inter.guild.owner_id`
guild_owner_ok(user_id, guild) == guild # 0 /\ user_id = owner_id(guild)

\* a test that lets everybody in
is_admin_anybody(user_id, guild, tbl) == TRUE

\* is_admin(inter)
is_admin(user_id, guild, tbl) == guild_owner_ok(user_id, guild) \/ is_admin_user(user_id, tbl)

\* grant_admin: INSERT OR IGNORE INTO admins
grant_admin(tbl, user_id) == tbl \cup {user_id}

\* revoke_admin: DELETE FROM admins WHERE discord_id=?
revoke_admin(tbl, user_id) == tbl \ {user_id}

\* set_guild_setting: INSERT ... ON CONFLICT(guild_id, key) DO UPDATE
set_guild_setting(tbl, guild, key) == tbl \cup {<<guild, key>>}

\* ---------------------------------------------------------------- catalog store
\* get_item: the row, or None
has_item(tbl, item_id) == item_id \in DOMAIN tbl

\* the check without its is_active half
item_unavailable_missing_only(tbl, item_id) == ~has_item(tbl, item_id)

\* `not item or not item["is_active"]`
item_unavailable(tbl, item_id) == ~has_item(tbl, item_id) \/ ~tbl[item_id].is_active

\* an id column without AUTOINCREMENT: the largest rowid in the table plus one
insert_item_rowid(tbl, seq, price_cents) ==
    LET top == IF DOMAIN tbl = {} THEN 0
               ELSE CHOOSE i \in DOMAIN tbl : \A j \in DOMAIN tbl : j <= i
    IN  tbl @@ ((top + 1) :> [price_cents |-> price_cents, is_active |-> TRUE])

\* upsert_item with item_id None: INSERT ... is_active = 1, id from AUTOINCREMENT
insert_item(tbl, seq, price_cents) ==
    tbl @@ ((seq + 1) :> [price_cents |-> price_cents, is_active |-> TRUE])

\* upsert_item with an item_id: UPDATE ... WHERE id=?
update_item(tbl, item_id, price_cents) ==
    IF has_item(tbl, item_id) THEN [tbl EXCEPT ![item_id].price_cents = price_cents] ELSE tbl

\* delete_item: DELETE FROM items WHERE id=?
delete_item(tbl, item_id) == [i \in DOMAIN tbl \ {item_id} |-> tbl[i]]

RECURSIVE delete_item_cascade(_, _)
\* a deletion that takes the purchases of the item with it
delete_item_cascade(rows, item_id) ==
    IF rows = <<>> THEN <<>>
    ELSE IF Head(rows).item_id = item_id THEN delete_item_cascade(Tail(rows), item_id)
    ELSE <<Head(rows)>> \o delete_item_cascade(Tail(rows), item_id)

\* what delete_item does to table purchases: nothing.  Its FOREIGN KEY(item_id)
\* names no ON DELETE action, and db() opens its connections without
\* PRAGMA foreign_keys, so sqlite does not enforce the key and the DELETE goes
\* through with rows still naming the item.
delete_item_purchases(rows, item_id) == rows

\* set_item_active: UPDATE items SET is_active=? WHERE id=?
set_item_active(tbl, item_id, active) ==
    IF has_item(tbl, item_id) THEN [tbl EXCEPT ![item_id].is_active = active] ELSE tbl

\* ---------------------------------------------------------------- delivery
\* preferred_send_channel, and `channel = None` when dest is "dm": TRUE when a
\* channel is handed to deliver_file, FALSE when it gets None and opens a DM
has_channel(dest, in_guild) == dest = "channel" /\ in_guild

\* `if size <= MAX_UPLOAD_BYTES` of deliver_file
\* `{size/1024/1024:.1f}MB`: the size in tenths of a megabyte, rounded to the
\* nearest, a tie to the even digit
fmt_mb(size) ==
    LET q == (size * 10) \div (1024 * 1024)
        r == (size * 10) % (1024 * 1024)
    IN  IF 2 * r > 1024 * 1024 \/ (2 * r = 1024 * 1024 /\ q % 2 = 1) THEN q + 1 ELSE q

\* the comparison without its equality
fits_upload_strict(size) == size < MAX_UPLOAD_BYTES

fits_upload(size) == size <= MAX_UPLOAD_BYTES

\* ---------------------------------------------------------------- history sums
RECURSIVE SumBalances(_, _)
\* the sum of balance_cents over the rows S of tbl
SumBalances(tbl, S) ==
    IF S = {} THEN 0
    ELSE LET u == CHOOSE x \in S : TRUE IN tbl[u] + SumBalances(tbl, S \ {u})

RECURSIVE PurchasedBy(_, _)
\* the sum of price_cents over the purchases rows of buyer u
PurchasedBy(rows, u) ==
    IF rows = <<>> THEN 0
    ELSE (IF Head(rows).discord_id = u THEN Head(rows).price_cents ELSE 0)
         + PurchasedBy(Tail(rows), u)

RECURSIVE TransferNet(_, _)
\* what the transfers rows add to u's balance: received minus sent
TransferNet(rows, u) ==
    IF rows = <<>> THEN 0
    ELSE (IF Head(rows).to_id = u THEN Head(rows).amount_cents ELSE 0)
         - (IF Head(rows).from_id = u THEN Head(rows).amount_cents ELSE 0)
         + TransferNet(Tail(rows), u)

RECURSIVE SumPrices(_)
\* the sum of the price local over a set of interactions
SumPrices(P) ==
    IF P = {} THEN 0
    ELSE LET p == CHOOSE x \in P : TRUE IN proc[p].price + SumPrices(P \ {p})

RefundedFor(u) == {p \in Procs : proc[p].refunded /\ proc[p].user = u}
DeliveredSet == {p \in Procs : proc[p].delivered}

\* the statements that have updated, or were issued to update, u's balance:
\* purchase debits, refunds, transfers in or out, top-ups
AccountEvents(u) ==
    Cardinality({k \in 1..Len(purchases) : purchases[k].discord_id = u})
    + Cardinality(RefundedFor(u))
    + Cardinality({k \in 1..Len(transfers) : u \in {transfers[k].from_id, transfers[k].to_id}})
    + topups[u].n

RECURSIVE SumTopups(_)
\* the cents all top-ups added to the accounts S
SumTopups(S) ==
    IF S = {} THEN 0
    ELSE LET u == CHOOSE x \in S : TRUE IN topups[u].sum + SumTopups(S \ {u})

\* what the calls recorded for u add up to: top-ups and refunds (add_balance),
\* purchase debits, transfers
Ledger(u) ==
    topups[u].sum + SumPrices(RefundedFor(u)) - PurchasedBy(purchases, u)
    + TransferNet(transfers, u)

\* ---------------------------------------------------------------- initial state
\* One purchase interaction: pc is the await it is suspended at; user, item_id,
\* price and bal are the handler's locals; pid is the purchases row it wrote;
\* ev0 is AccountEvents of the buyer when bal was read (history);
\* out is how it ended; debited, refunded and delivered record what it has done;
\* need is the shortfall its refusal message names (<<>> when it names none);
\* pressed tells that a confirm button was pressed, so that _handle ran;
\* size is the size of the file the download returned (0: none), size_shown the
\* size its refusal message names (<<>> when it names none); thread is the
\* state of the worker thread of the download; fetches, sends and refunds count
\* the calls of download_drive_to_temp, of target.send and of the refund.
IdleProc == [pc |-> "idle", user |-> 0, item_id |-> 0, price |-> 0, bal |-> 0, ev0 |-> 0,
             pid |-> 0, need |-> <<>>, pressed |-> FALSE,
             size |-> 0, size_shown |-> <<>>, thread |-> "none",
             fetches |-> 0, sends |-> 0, refunds |-> 0,
             out |-> "none", debited |-> FALSE, refunded |-> FALSE, delivered |-> FALSE]

NoRet == [ok |-> FALSE, reason |-> "none", from_id |-> 0, to_id |-> 0, amount_cents |-> 0,
          n |-> 0, oks |-> 0]

NoAdm == [n |-> 0, cmd |-> "none", user |-> 0, guild |-> 0, target |-> 0]

NoHist == [n |-> 0, discord_id |-> 0, limit |-> 0, rows |-> <<>>]

\* db_init on a fresh database: empty tables, shop_open = '1'
Init ==
    /\ users = EmptyTbl
    /\ items = EmptyTbl
    /\ item_seq = 0
    /\ purchases = <<>>
    /\ transfers = <<>>
    /\ shop_open = TRUE
    /\ proc = [p \in Procs |-> IdleProc]
    /\ topups = [u \in Users |-> [n |-> 0, sum |-> 0]]
    /\ nops = 0
    /\ ret = NoRet
    /\ hist = NoHist
    /\ admins = {}
    /\ gsettings = {}
    /\ adm = NoAdm

\* ---------------------------------------------------------------- purchase
\* a download run in the event loop itself: nothing else runs until it ends
blocks_loop_sync(me) == me.pc = "await_download"

\* does a suspended handler keep the event loop to itself?  Never: each await
\* gives the loop back, and _download runs in a worker thread (asyncio.to_thread)
\* while its handler waits in wait_for.
blocks_loop(me) == FALSE

\* the event loop is free to run a step for the handlers in S, or a command
\* (S = {}): no other handler is keeping it
LoopFree(S) == \A q \in Procs \ S : ~blocks_loop(proc[q])

\* the interactions that arrive before p
Earlier(p) == IF p = "p2" THEN {"p1"} ELSE {}

\* fmt_thb: f"{satang/100:.2f} บาท", the amount as sign, baht and two digits of
\* satang (the division and the rounding to two places are exact for any amount
\* a 64-bit balance of satang can hold below 2^53)
fmt_thb(satang) ==
    LET a == IF satang < 0 THEN -satang ELSE satang
    IN  [neg |-> satang < 0, baht |-> a \div 100, satang |-> a % 100]

Finish(p, out) == [proc EXCEPT ![p].pc = "done", ![p].out = out]

\* ShopSelect.callback, after its defer: shop open, item available, balance, then
\* the ConfirmBuyView is shown.  The option chosen was listed when the menu was
\* built, so it names an item that existed then.  The interactions are numbered
\* in the order their selections arrive, and the buyer of the first is the
\* account called 1 (the commands treat all accounts alike).
Select(p, u, i) ==
    /\ proc[p].pc = "idle"
    /\ LoopFree({p})
    /\ \A q \in Earlier(p) : proc[q].pc # "idle"
    /\ Earlier(p) = {} => u = 1
    /\ i <= item_seq
    /\ LET me == [proc[p] EXCEPT !.user = u, !.item_id = i] IN
       IF ~shop_open THEN
            /\ proc' = [proc EXCEPT ![p] = [me EXCEPT !.pc = "done", !.out = "ShopClosed"]]
            /\ users' = users
       ELSE IF item_unavailable(items, i) THEN
            /\ proc' = [proc EXCEPT ![p] = [me EXCEPT !.pc = "done", !.out = "ItemUnavailable"]]
            /\ users' = users
       ELSE LET price == items[i].price_cents
                bal == get_balance(users, u)
            IN  /\ users' = get_balance_tbl(users, u)
                /\ IF bal < price
                   THEN proc' = [proc EXCEPT ![p] = [me EXCEPT !.pc = "done",
                                    !.price = price, !.bal = bal,
                                    !.need = <<fmt_thb(price - bal)>>,
                                    !.out = "InsufficientFunds"]]
                   ELSE proc' = [proc EXCEPT ![p] = [me EXCEPT !.pc = "view"]]
    /\ UNCHANGED <<items, item_seq, purchases, transfers, shop_open, topups, nops, ret, call_vars>>

\* ConfirmBuyView._handle up to its first await (edit_message): item, shop, price,
\* balance.  Its refusal for the balance is the bare text "ยอดเงินไม่พอ": no amount.
ConfirmCheck(p) ==
    /\ proc[p].pc = "view"
    /\ LoopFree({p})
    /\ LET me == [proc[p] EXCEPT !.pressed = TRUE] IN
       IF item_unavailable(items, me.item_id) THEN
            /\ proc' = [proc EXCEPT ![p] = [me EXCEPT !.pc = "done", !.out = "ItemUnavailable"]]
            /\ users' = users
       ELSE IF ~shop_open THEN
            /\ proc' = [proc EXCEPT ![p] = [me EXCEPT !.pc = "done", !.out = "ShopClosed"]]
            /\ users' = users
       ELSE LET price == items[me.item_id].price_cents
                bal == get_balance(users, me.user)
            IN  /\ users' = get_balance_tbl(users, me.user)
                /\ IF bal < price
                   THEN proc' = [proc EXCEPT ![p] = [me EXCEPT !.pc = "done", !.price = price,
                                    !.bal = bal, !.out = "InsufficientFunds"]]
                   ELSE proc' = [proc EXCEPT ![p] = [me EXCEPT !.pc = "await_edit",
                                    !.price = price, !.bal = bal,
                                    !.ev0 = AccountEvents(me.user)]]
    /\ UNCHANGED <<items, item_seq, purchases, transfers, shop_open, topups, nops, ret, call_vars>>

\* edit_message raises (the interaction is gone): the handler ends before the debit
EditRaises(p) ==
    /\ proc[p].pc = "await_edit"
    /\ LoopFree({p})
    /\ proc' = Finish(p, "raised")
    /\ UNCHANGED <<db_vars, topups, nops, ret, call_vars>>

\* download_drive_to_temp is called: asyncio.to_thread starts _download in a
\* worker thread and the handler is suspended in wait_for
StartFetch(me) == [me EXCEPT !.pc = "await_download", !.thread = "running",
                             !.fetches = @ + 1]

\* _handle after edit_message returns: add_purchase, the destination, and
\* deliver_file up to its first await (create_dm when it got no channel, else the
\* download)
ConfirmDebit(p, dest, in_guild) ==
    /\ proc[p].pc = "await_edit"
    /\ LoopFree({p})
    /\ LET me == proc[p] IN
        /\ purchases' = add_purchase_rows(purchases, me.user, me.item_id, me.price)
        /\ users' = add_purchase_users(users, me.user, me.price)
        /\ LET paid == [me EXCEPT !.pid = Len(purchases) + 1, !.debited = TRUE] IN
           proc' = [proc EXCEPT ![p] = IF has_channel(dest, in_guild) THEN StartFetch(paid)
                                       ELSE [paid EXCEPT !.pc = "await_create_dm"]]
    /\ UNCHANGED <<items, item_seq, transfers, shop_open, topups, nops, ret, call_vars>>

\* user.create_dm() returns, or raises: it is awaited before deliver_file's try,
\* so the exception leaves deliver_file and _handle
CreateDm(p, ok) ==
    /\ proc[p].pc = "await_create_dm"
    /\ LoopFree({p})
    /\ proc' = IF ok THEN [proc EXCEPT ![p] = StartFetch(proc[p])] ELSE Finish(p, "raised")
    /\ UNCHANGED <<db_vars, topups, nops, ret, call_vars>>

\* a refund of what the item costs now
refund_cents_current_price(me, tbl) ==
    IF has_item(tbl, me.item_id) THEN tbl[me.item_id].price_cents ELSE me.price

\* the amount of `add_balance(interaction.user.id, price)`: the local price of
\* _handle, whatever the items table holds by now
refund_cents(me, tbl) == me.price

\* `if not ok:` of _handle: add_balance(user, price), then the followup is awaited
Refund(me, why) == [me EXCEPT !.pc = "report_fail", !.out = why, !.refunded = TRUE,
                              !.refunds = @ + 1]

\* download_drive_to_temp ends.  "ok": _download returned a file of some size,
\* which is sent when it fits and refused with its size in MB when it does not.
\* "timeout": wait_for gave up after 120 s; it cancels the future of to_thread,
\* the thread itself cannot be stopped and is left running.  "error": _download
\* raised and the thread is over as well.
Download(p, how, size) ==
    /\ proc[p].pc = "await_download"
    /\ LoopFree({p})
    /\ LET me == proc[p] IN
       IF how = "ok" /\ fits_upload(size) THEN
            /\ proc' = [proc EXCEPT ![p] = [me EXCEPT !.pc = "await_send", !.size = size,
                                    !.thread = "returned", !.sends = @ + 1]]
            /\ users' = users
       ELSE /\ proc' = [proc EXCEPT ![p] =
                    IF how = "ok"
                    THEN Refund([me EXCEPT !.size = size, !.thread = "returned",
                                           !.size_shown = <<fmt_mb(size)>>],
                                "PayloadTooLarge")
                    ELSE IF how = "timeout"
                    THEN Refund([me EXCEPT !.thread = "abandoned"], "Timeout")
                    ELSE Refund([me EXCEPT !.thread = "returned"], "FetchError")]
            /\ users' = add_balance(users, me.user, refund_cents(me, items))
    /\ UNCHANGED <<items, item_seq, purchases, transfers, shop_open, topups, nops, ret, call_vars>>

\* target.send ends: sent (deliver_file returns True; _handle reads the balance
\* for its message), or an exception, which deliver_file's except turns into False
Send(p, ok) ==
    /\ proc[p].pc = "await_send"
    /\ LoopFree({p})
    /\ IF ok THEN
            /\ proc' = [proc EXCEPT ![p].pc = "report_ok", ![p].delivered = TRUE]
            /\ users' = get_balance_tbl(users, proc[p].user)
       ELSE /\ proc' = [proc EXCEPT ![p] = Refund(proc[p], "FetchError")]
            /\ users' = add_balance(users, proc[p].user, refund_cents(proc[p], items))
    /\ UNCHANGED <<items, item_seq, purchases, transfers, shop_open, topups, nops, ret, call_vars>>

\* an abandoned _download that returns after all and delivers its file
late_fetch_delivers(me) == [me EXCEPT !.thread = "late", !.sends = @ + 1, !.delivered = TRUE]

\* an abandoned _download returns: the future wait_for was waiting on is
\* cancelled, so the file it wrote and the size it returns reach nobody
late_fetch(me) == [me EXCEPT !.thread = "late"]

\* the worker thread of a timed-out download comes to its end
LateFetch(p) ==
    /\ proc[p].thread = "abandoned"
    /\ proc' = [proc EXCEPT ![p] = late_fetch(proc[p])]
    /\ UNCHANGED <<db_vars, topups, nops, ret, call_vars>>

\* the followup of either branch has been sent (and the purchase logged)
Report(p) ==
    /\ proc[p].pc \in {"report_fail", "report_ok"}
    /\ LoopFree({p})
    /\ proc' = [proc EXCEPT ![p].pc = "done",
                            ![p].out = IF proc[p].pc = "report_ok" THEN "Delivered" ELSE @]
    /\ UNCHANGED <<db_vars, topups, nops, ret, call_vars>>

InFlight(p) == proc[p].pc \notin {"idle", "done"}

\* a handler suspended at an await is gone with the process, and so is the
\* worker thread of its download
crashed(me) ==
    LET t == IF me.thread \in {"running", "abandoned"} THEN "killed" ELSE me.thread
    IN  IF me.pc \in {"idle", "done"} THEN [me EXCEPT !.thread = t]
        ELSE [me EXCEPT !.pc = "done", !.out = "crashed", !.thread = t]

\* the process dies: every suspended handler is gone, the database stays as the
\* last commit left it (sqlite rolls an open transaction back)
Crash ==
    /\ \E p \in Procs : InFlight(p)
    /\ proc' = [p \in Procs |-> crashed(proc[p])]
    /\ UNCHANGED <<db_vars, topups, nops, ret, call_vars>>

\* ---------------------------------------------------------------- commands
Op == LoopFree({}) /\ nops < MaxOps /\ nops' = nops + 1

\* any admin command whose caller fails require_admin: a message, no change
admin_denied ==
    /\ Op
    /\ UNCHANGED <<db_vars, proc, topups, ret, call_vars>>

admin_add_item(price_cents) ==
    /\ Op
    /\ items' = insert_item(items, item_seq, price_cents)
    /\ item_seq' = item_seq + 1
    /\ UNCHANGED <<users, purchases, transfers, shop_open, proc, topups, ret, call_vars>>

admin_edit_item(item_id, price_cents) ==
    /\ Op
    /\ items' = IF has_item(items, item_id) THEN update_item(items, item_id, price_cents)
                ELSE items
    /\ UNCHANGED <<users, item_seq, purchases, transfers, shop_open, proc, topups, ret, call_vars>>

admin_delete_item(item_id) ==
    /\ Op
    /\ items' = delete_item(items, item_id)
    /\ purchases' = delete_item_purchases(purchases, item_id)
    /\ UNCHANGED <<users, item_seq, transfers, shop_open, proc, topups, ret, call_vars>>

admin_toggle_item(item_id, active) ==
    /\ Op
    /\ items' = IF has_item(items, item_id) THEN set_item_active(items, item_id, active)
                ELSE items
    /\ UNCHANGED <<users, item_seq, purchases, transfers, shop_open, proc, topups, ret, call_vars>>

admin_shop_toggle(is_open) ==
    /\ Op
    /\ shop_open' = is_open
    /\ UNCHANGED <<users, items, item_seq, purchases, transfers, proc, topups, ret, call_vars>>

admin_add_balance(u, cents) ==
    /\ Op
    /\ users' = add_balance(users, u, cents)
    /\ topups' = [topups EXCEPT ![u] = [n |-> @.n + 1, sum |-> @.sum + cents]]
    /\ UNCHANGED <<items, item_seq, purchases, transfers, shop_open, proc, ret, call_vars>>

\* balance_cmd, balance_btn, admin_check_balance
balance_cmd(u) ==
    /\ Op
    /\ users' = get_balance_tbl(users, u)
    /\ UNCHANGED <<items, item_seq, purchases, transfers, shop_open, proc, topups, ret, call_vars>>

\* history_btn and history_cmd: get_my_purchases and a message; nothing is written
history_cmd(u) ==
    /\ Op
    /\ UNCHANGED <<db_vars, proc, topups, ret, call_vars>>

\* transfer_cmd and TransferModal.on_submit: both refuse a transfer to oneself
\* and amount_thb <= 0 before they call transfer_balance; to_satang can still
\* round a positive amount_thb to 0
transfer_cmd(from_id, to_id, amount_cents) ==
    /\ Op
    /\ from_id # to_id
    /\ LET r == transfer_balance(users, transfers, from_id, to_id, amount_cents) IN
        /\ users' = r.users
        /\ transfers' = r.transfers
    /\ UNCHANGED <<items, item_seq, purchases, shop_open, proc, topups, ret, call_vars>>

\* the commands act on the accounts that shop; an account that never opens the
\* menu is the third caller of SpecAdmin and the third account of SpecLedger
Next ==
    \/ \E p \in Procs, u \in Buyers, i \in ItemIds : Select(p, u, i)
    \/ \E p \in Procs : ConfirmCheck(p)
    \/ \E p \in Procs : EditRaises(p)
    \/ \E p \in Procs, dest \in Dest, in_guild \in BOOLEAN : ConfirmDebit(p, dest, in_guild)
    \/ \E p \in Procs, ok \in BOOLEAN : CreateDm(p, ok)
    \/ \E p \in Procs, how \in {"ok", "timeout", "error"}, size \in Sizes : Download(p, how, size)
    \/ \E p \in Procs, ok \in BOOLEAN : Send(p, ok)
    \/ \E p \in Procs : LateFetch(p)
    \/ \E p \in Procs : Report(p)
    \/ Crash
    \/ admin_denied
    \/ \E price \in Prices : admin_add_item(price)
    \/ \E i \in ItemIds, price \in Prices : admin_edit_item(i, price)
    \/ \E i \in ItemIds : admin_delete_item(i)
    \/ \E i \in ItemIds, active \in BOOLEAN : admin_toggle_item(i, active)
    \/ \E is_open \in BOOLEAN : admin_shop_toggle(is_open)
    \/ \E u \in Buyers, cents \in Deltas : admin_add_balance(u, cents)
    \/ \E u \in Buyers : balance_cmd(u)
    \/ \E u \in Buyers : history_cmd(u)
    \/ \E f \in Buyers, t \in Buyers, a \in Amounts : transfer_cmd(f, t, a)

Spec == Init /\ [][Next]_vars

\* ---------------------------------------------------------------- ledger store alone
\* The ledger functions called directly, with any arguments, one call at a time.
Call == nops < MaxCalls /\ nops' = nops + 1

call_get_balance(u) ==
    /\ Call
    /\ users' = get_balance_tbl(users, u)
    /\ UNCHANGED <<items, item_seq, purchases, transfers, shop_open, proc, topups, ret, call_vars>>

call_add_balance(u, cents) ==
    /\ Call
    /\ users' = add_balance(users, u, cents)
    /\ topups' = [topups EXCEPT ![u] = [n |-> @.n + 1, sum |-> @.sum + cents]]
    /\ UNCHANGED <<items, item_seq, purchases, transfers, shop_open, proc, ret, call_vars>>

call_transfer_balance(from_id, to_id, amount_cents) ==
    /\ Call
    /\ LET r == transfer_balance(users, transfers, from_id, to_id, amount_cents) IN
        /\ users' = r.users
        /\ transfers' = r.transfers
        /\ ret' = [ok |-> r.ok, reason |-> r.reason, from_id |-> from_id, to_id |-> to_id,
                   amount_cents |-> amount_cents, n |-> nops + 1,
                   oks |-> ret.oks + (IF r.ok THEN 1 ELSE 0)]
    /\ UNCHANGED <<items, item_seq, purchases, shop_open, proc, topups, call_vars>>

NextLedger ==
    \/ \E u \in Users : call_get_balance(u)
    \/ \E u \in Users, cents \in AnyDeltas : call_add_balance(u, cents)
    \/ \E f \in Users, t \in Users, a \in AnyAmounts : call_transfer_balance(f, t, a)

SpecLedger == Init /\ [][NextLedger]_vars

\* ---------------------------------------------------------------- history alone
\* get_my_purchases called directly on any purchases table the program can have
\* written: rows of the two buyers for the items 1 and 2, in id order, stamped in
\* that order, each item either still in table items or deleted since.
HistoryItems == {1, 2}
HistoryLimits == 0..MaxRows

written_purchases(f) ==
    [k \in 1..Len(f) |-> [discord_id |-> f[k][1], item_id |-> f[k][2], price_cents |-> 2,
                          created_at |-> k]]

InitHistory ==
    /\ \E n \in 0..MaxRows : \E f \in [1..n -> Buyers \X HistoryItems] :
            purchases = written_purchases(f)
    /\ \E S \in SUBSET HistoryItems :
            items = [i \in S |-> [price_cents |-> 2, is_active |-> TRUE]]
    /\ item_seq = 2
    /\ users = [u \in Buyers |-> 0]
    /\ transfers = <<>>
    /\ shop_open = TRUE
    /\ proc = [p \in Procs |-> IdleProc]
    /\ topups = [u \in Users |-> [n |-> 0, sum |-> 0]]
    /\ nops = 0
    /\ ret = NoRet
    /\ hist = NoHist
    /\ admins = {}
    /\ gsettings = {}
    /\ adm = NoAdm

call_get_my_purchases(discord_id, limit) ==
    /\ hist' = [n |-> 1, discord_id |-> discord_id, limit |-> limit,
                rows |-> get_my_purchases(purchases, items, discord_id, limit)]
    /\ UNCHANGED <<db_vars, proc, topups, nops, ret, admin_vars>>

NextHistory == \E u \in Users, limit \in HistoryLimits : call_get_my_purchases(u, limit)

SpecHistory == InitHistory /\ [][NextHistory]_vars

\* ---------------------------------------------------------------- admin commands
\* The commands behind require_admin and the two behind the owner test, each
\* with its caller: the user and the guild the interaction comes from (0: a DM).
CallerGuilds == {0} \cup Guilds
\* to_satang(price_thb) of admin_add_item and admin_edit_item: price_thb is any
\* float the caller types, and neither handler looks at its sign
AdminPrices == {-2, 2}
SettingKeys == {"send_channel_id", "log_transfer_channel_id", "log_purchase_channel_id",
                "log_topup_channel_id"}

AdminCall(cmd, user, guild, target) ==
    /\ nops < MaxAdminCalls
    /\ nops' = nops + 1
    /\ adm' = [n |-> nops + 1, cmd |-> cmd, user |-> user, guild |-> guild, target |-> target]

\* `msg = require_admin(interaction)`: the handler goes on when msg is None
allowed(user, guild) == is_admin(user, guild, admins)

cmd_admin_add_item(user, guild, price_cents) ==
    /\ AdminCall("admin_add_item", user, guild, 0)
    /\ IF allowed(user, guild)
       THEN items' = insert_item(items, item_seq, price_cents) /\ item_seq' = item_seq + 1
       ELSE UNCHANGED <<items, item_seq>>
    /\ UNCHANGED <<users, purchases, transfers, shop_open, proc, topups, ret, hist,
                   admins, gsettings>>

cmd_admin_edit_item(user, guild, item_id, price_cents) ==
    /\ AdminCall("admin_edit_item", user, guild, item_id)
    /\ items' = IF allowed(user, guild) /\ has_item(items, item_id)
                THEN update_item(items, item_id, price_cents) ELSE items
    /\ UNCHANGED <<users, item_seq, purchases, transfers, shop_open, proc, topups, ret, hist,
                   admins, gsettings>>

cmd_admin_delete_item(user, guild, item_id) ==
    /\ AdminCall("admin_delete_item", user, guild, item_id)
    /\ IF allowed(user, guild)
       THEN /\ items' = delete_item(items, item_id)
            /\ purchases' = delete_item_purchases(purchases, item_id)
       ELSE UNCHANGED <<items, purchases>>
    /\ UNCHANGED <<users, item_seq, transfers, shop_open, proc, topups, ret, hist,
                   admins, gsettings>>

cmd_admin_toggle_item(user, guild, item_id, active) ==
    /\ AdminCall("admin_toggle_item", user, guild, item_id)
    /\ items' = IF allowed(user, guild) /\ has_item(items, item_id)
                THEN set_item_active(items, item_id, active) ELSE items
    /\ UNCHANGED <<users, item_seq, purchases, transfers, shop_open, proc, topups, ret, hist,
                   admins, gsettings>>

cmd_admin_add_balance(user, guild, target, cents) ==
    /\ AdminCall("admin_add_balance", user, guild, target)
    /\ IF allowed(user, guild)
       THEN /\ users' = add_balance(users, target, cents)
            /\ topups' = [topups EXCEPT ![target] = [n |-> @.n + 1, sum |-> @.sum + cents]]
       ELSE UNCHANGED <<users, topups>>
    /\ UNCHANGED <<items, item_seq, purchases, transfers, shop_open, proc, ret, hist,
                   admins, gsettings>>

\* admin_check_balance: get_balance of the user picked
cmd_admin_check_balance(user, guild, target) ==
    /\ AdminCall("admin_check_balance", user, guild, target)
    /\ users' = IF allowed(user, guild) THEN get_balance_tbl(users, target) ELSE users
    /\ UNCHANGED <<items, item_seq, purchases, transfers, shop_open, proc, topups, ret, hist,
                   admins, gsettings>>

cmd_admin_shop_toggle(user, guild, is_open) ==
    /\ AdminCall("admin_shop_toggle", user, guild, 0)
    /\ shop_open' = IF allowed(user, guild) THEN is_open ELSE shop_open
    /\ UNCHANGED <<users, items, item_seq, purchases, transfers, proc, topups, ret, hist,
                   admins, gsettings>>

\* admin_set_send_channel_id, admin_set_log_transfer_id, admin_set_log_purchase_id,
\* admin_set_log_topup_id: refused outside a guild
cmd_admin_set_channel_id(user, guild, key) ==
    /\ AdminCall("admin_set_channel_id", user, guild, 0)
    /\ gsettings' = IF allowed(user, guild) /\ guild # 0
                    THEN set_guild_setting(gsettings, guild, key) ELSE gsettings
    /\ UNCHANGED <<db_vars, proc, topups, ret, hist, admins>>

\* admin_grant_cmd: `interaction.guild is None or user.id != guild.owner_id` refuses
cmd_admin_grant(user, guild, target) ==
    /\ AdminCall("admin_grant", user, guild, target)
    /\ admins' = IF guild_owner_ok(user, guild) THEN grant_admin(admins, target) ELSE admins
    /\ UNCHANGED <<db_vars, proc, topups, ret, hist, gsettings>>

cmd_admin_revoke(user, guild, target) ==
    /\ AdminCall("admin_revoke", user, guild, target)
    /\ admins' = IF guild_owner_ok(user, guild) THEN revoke_admin(admins, target) ELSE admins
    /\ UNCHANGED <<db_vars, proc, topups, ret, hist, gsettings>>

NextAdmin ==
    \E user \in Users, guild \in CallerGuilds :
        \/ \E price \in AdminPrices : cmd_admin_add_item(user, guild, price)
        \/ \E i \in ItemIds, price \in AdminPrices : cmd_admin_edit_item(user, guild, i, price)
        \/ \E i \in ItemIds : cmd_admin_delete_item(user, guild, i)
        \/ \E i \in ItemIds, active \in BOOLEAN : cmd_admin_toggle_item(user, guild, i, active)
        \/ \E t \in Users, cents \in Deltas : cmd_admin_add_balance(user, guild, t, cents)
        \/ \E t \in Users : cmd_admin_check_balance(user, guild, t)
        \/ \E is_open \in BOOLEAN : cmd_admin_shop_toggle(user, guild, is_open)
        \/ \E key \in SettingKeys : cmd_admin_set_channel_id(user, guild, key)
        \/ \E t \in Users : cmd_admin_grant(user, guild, t)
        \/ \E t \in Users : cmd_admin_revoke(user, guild, t)

SpecAdmin == Init /\ [][NextAdmin]_vars

\* ---------------------------------------------------------------- catalog store alone
\* The catalog functions called directly, one call at a time, and add_purchase
\* of an item the table holds (ShopSelect.callback and _handle look the item up
\* with get_item first).  adm holds the call.
CatalogIds == 1..MaxCatalogCalls

CatalogCall(cmd, target) ==
    /\ nops < MaxCatalogCalls
    /\ nops' = nops + 1
    /\ adm' = [n |-> nops + 1, cmd |-> cmd, user |-> 0, guild |-> 0, target |-> target]

\* upsert_item(item_id=None)
call_upsert_item_new(price_cents) ==
    /\ CatalogCall("upsert_item_new", 0)
    /\ items' = insert_item(items, item_seq, price_cents)
    /\ item_seq' = item_seq + 1
    /\ UNCHANGED <<users, purchases, transfers, shop_open, proc, topups, ret, hist,
                   admins, gsettings>>

\* upsert_item(item_id=...), whether the id exists or not
call_upsert_item(item_id, price_cents) ==
    /\ CatalogCall("upsert_item", item_id)
    /\ items' = update_item(items, item_id, price_cents)
    /\ UNCHANGED <<users, item_seq, purchases, transfers, shop_open, proc, topups, ret, hist,
                   admins, gsettings>>

call_delete_item(item_id) ==
    /\ CatalogCall("delete_item", item_id)
    /\ items' = delete_item(items, item_id)
    /\ purchases' = delete_item_purchases(purchases, item_id)
    /\ UNCHANGED <<users, item_seq, transfers, shop_open, proc, topups, ret, hist,
                   admins, gsettings>>

call_set_item_active(item_id, active) ==
    /\ CatalogCall("set_item_active", item_id)
    /\ items' = set_item_active(items, item_id, active)
    /\ UNCHANGED <<users, item_seq, purchases, transfers, shop_open, proc, topups, ret, hist,
                   admins, gsettings>>

call_add_purchase(discord_id, item_id) ==
    /\ has_item(items, item_id)
    /\ CatalogCall("add_purchase", item_id)
    /\ purchases' = add_purchase_rows(purchases, discord_id, item_id, items[item_id].price_cents)
    /\ users' = add_purchase_users(users, discord_id, items[item_id].price_cents)
    /\ UNCHANGED <<items, item_seq, transfers, shop_open, proc, topups, ret, hist,
                   admins, gsettings>>

NextCatalog ==
    \/ \E price \in Prices : call_upsert_item_new(price)
    \/ \E i \in CatalogIds, price \in Prices : call_upsert_item(i, price)
    \/ \E i \in CatalogIds : call_delete_item(i)
    \/ \E i \in CatalogIds, active \in BOOLEAN : call_set_item_active(i, active)
    \/ \E u \in Buyers, i \in CatalogIds : call_add_purchase(u, i)

SpecCatalog == Init /\ [][NextCatalog]_vars

\* ================================================================ claims

(* C1: between a confirm's balance check and its debit nothing else takes     *)
(* effect on the buyer's account: while a confirm is suspended between the    *)
(* check and add_purchase, the account has seen no further statement and its  *)
(* balance is still the value the confirm read.                               *)
C1_CheckThenDebitAtomic ==
    \A p \in Procs :
        proc[p].pc = "await_edit" =>
            /\ AccountEvents(proc[p].user) = proc[p].ev0
            /\ select_balance(users, proc[p].user) = proc[p].bal

(* C2: a purchase flow that has debited and has finished has delivered the    *)
(* asset or refunded the buyer, and a failure is reported only after the      *)
(* refund was applied.                                                        *)
C2_DebitedEndsDeliveredOrRefunded ==
    \A p \in Procs :
        /\ (proc[p].pc = "done" /\ proc[p].debited /\ proc[p].out # "crashed")
                => (proc[p].delivered \/ proc[p].refunded)
        /\ proc[p].pc = "report_fail" => proc[p].refunded

(* C3: a purchase that was debited and then failed in fetch or delivery,      *)
(* with no other statement on the buyer's account since its balance check,    *)
(* leaves the balance at the value read by the check and one purchases row    *)
(* with the debited price.                                                    *)
C3_FailedPurchaseRestoresBalance ==
    \A p \in Procs :
        LET me == proc[p] IN
        ( /\ me.debited /\ ~me.delivered
          /\ me.pc \in {"report_fail", "done"} /\ me.out # "crashed"
          /\ AccountEvents(me.user) = me.ev0 + 1 + (IF me.refunded THEN 1 ELSE 0) )
        => /\ select_balance(users, me.user) = me.bal
           /\ me.pid \in 1..Len(purchases)
           /\ purchases[me.pid].discord_id = me.user
           /\ purchases[me.pid].item_id = me.item_id
           /\ purchases[me.pid].price_cents = me.price

\* every purchases row was written by one debiting handler, for an existing account
C4_Records ==
    /\ \A k \in 1..Len(purchases) : purchases[k].discord_id \in DOMAIN users
    /\ \A p \in Procs : proc[p].debited =>
            /\ proc[p].pid \in 1..Len(purchases)
            /\ purchases[proc[p].pid].discord_id = proc[p].user
            /\ purchases[proc[p].pid].item_id = proc[p].item_id
            /\ purchases[proc[p].pid].price_cents = proc[p].price
    /\ \A p, q \in Procs : (p # q /\ proc[p].debited /\ proc[q].debited)
            => proc[p].pid # proc[q].pid
    /\ Len(purchases) = Cardinality({p \in Procs : proc[p].debited})

\* a step writes a purchases row exactly when a handler debits, and that step
\* lowers the row's buyer by the row's price; no step removes or rewrites a row
C4_Step ==
    /\ purchases' # purchases <=> (\E p \in Procs : proc'[p].debited /\ ~proc[p].debited)
    /\ purchases' # purchases =>
          /\ Len(purchases') = Len(purchases) + 1
          /\ SubSeq(purchases', 1, Len(purchases)) = purchases
          /\ LET row == purchases'[Len(purchases')] IN
                /\ row.discord_id \in DOMAIN users
                /\ users' = [users EXCEPT ![row.discord_id] = @ - row.price_cents]

(* C4: add_purchase debits and records as one unit: in every reachable state, *)
(* a crash at any await included, each purchases row belongs to one debit of  *)
(* its buyer by its price, made in the step that wrote the row, no debit is   *)
(* without its row, and the buyer's account row exists.                       *)
C4_DebitAndRecordAreOneUnit == [](C4_Records) /\ [][C4_Step]_vars

\* a handler that had debited a positive price was killed by a crash
C4_Witness ==
    \E p \in Procs : proc[p].out = "crashed" /\ proc[p].debited /\ proc[p].price > 0

(* C5: every account's balance is the initial balance (zero: accounts are     *)
(* created at zero) plus the exact sum of the deltas add_balance was called   *)
(* with for it (top-ups and refunds), plus what the purchases and transfers   *)
(* rows of that account account for, under every interleaving.                *)
C5_NoUpdateLost == \A u \in Users : select_balance(users, u) = Ledger(u)

\* an account that got a top-up and a refund of a positive price
C5_Witness ==
    \E u \in Users :
        /\ topups[u].n >= 1
        /\ \E p \in RefundedFor(u) : proc[p].price > 0

\* debited, neither delivered nor refunded, and the handler is suspended or
\* was cut off by a crash
Unsettled(p) ==
    /\ proc[p].debited /\ ~proc[p].delivered /\ ~proc[p].refunded
    /\ (proc[p].pc # "done" \/ proc[p].out = "crashed")

(* C6: when no purchase is between its debit and its delivery or refund, the  *)
(* sum of all balances is the initial sum (zero) plus the admin adjustments   *)
(* minus the prices of the delivered purchases.                               *)
C6_SumOfBalances ==
    (\A p \in Procs : ~Unsettled(p))
        => SumBalances(users, DOMAIN users) = SumTopups(Users) - SumPrices(DeliveredSet)

\* ---------------------------------------------------------------- transfers
\* the step is a transfer_balance call; ret' holds its arguments and its result
TransferStep == ret'.n # ret.n
TransferValid ==
    /\ ret'.amount_cents > 0
    /\ ret'.from_id # ret'.to_id
    /\ select_balance(users, ret'.from_id) >= ret'.amount_cents
BalancesUnchanged == \A u \in Users : select_balance(users', u) = select_balance(users, u)

\* a call returns success exactly when it is valid, and then moves amount from A
\* to B, touches no other account, keeps the sum and appends the one row
C7_Step ==
    TransferStep =>
        /\ ret'.ok <=> TransferValid
        /\ ret'.ok =>
              LET A == ret'.from_id
                  B == ret'.to_id
                  amount == ret'.amount_cents
              IN  /\ A \in DOMAIN users /\ {A, B} \subseteq DOMAIN users'
                  /\ users'[A] = users[A] - amount
                  /\ users'[B] = select_balance(users, B) + amount
                  /\ \A u \in Users \ {A, B} :
                        /\ u \in DOMAIN users' <=> u \in DOMAIN users
                        /\ select_balance(users', u) = select_balance(users, u)
                  /\ SumBalances(users', DOMAIN users') = SumBalances(users, DOMAIN users)
                  /\ transfers' = Append(transfers, [from_id |-> A, to_id |-> B,
                                                     amount_cents |-> amount])
        /\ ~ret'.ok => transfers' = transfers

(* C7: a successful transfer(A, B, amount) lowers A by amount, raises B by    *)
(* amount, leaves every other account and the sum of the balances unchanged   *)
(* and appends one transfers row (A, B, amount), all in one step; the number  *)
(* of transfers rows is always the number of calls that returned success.     *)
C7_TransferMovesExactly == [](Len(transfers) = ret.oks) /\ [][C7_Step]_vars

\* a transfer succeeded while a third account held a balance
C7_Witness ==
    /\ ret.ok
    /\ \E u \in Users \ {ret.from_id, ret.to_id} : select_balance(users, u) # 0

\* refused for insufficient funds, nothing moved; the whole balance is accepted
C8_Step ==
    (TransferStep /\ ret'.from_id # ret'.to_id /\ ret'.amount_cents > 0) =>
        /\ select_balance(users, ret'.from_id) < ret'.amount_cents =>
              /\ ~ret'.ok /\ ret'.reason = "insufficient"
              /\ BalancesUnchanged
              /\ transfers' = transfers
        /\ select_balance(users, ret'.from_id) = ret'.amount_cents =>
              /\ ret'.ok
              /\ select_balance(users', ret'.from_id) = 0

(* C8: transfer(A, B, amount) with A # B, amount > 0 and balance(A) < amount  *)
(* fails with the insufficient-funds reason, leaves the balances of A and B   *)
(* unchanged and appends no row; a transfer of exactly balance(A) succeeds    *)
(* and leaves A at zero.                                                      *)
C8_InsufficientFunds == [][C8_Step]_vars

\* a sender holding a positive balance was refused for asking more than it
C8_Witness ==
    /\ ret.reason = "insufficient"
    /\ select_balance(users, ret.from_id) > 0
    /\ select_balance(users, ret.from_id) < ret.amount_cents

\* a self-transfer or a non-positive amount is refused as such, nothing changes
C9_Step ==
    (TransferStep /\ (ret'.from_id = ret'.to_id \/ ret'.amount_cents <= 0)) =>
        /\ ~ret'.ok
        /\ ret'.reason \in {"amount", "self"}
        /\ users' = users
        /\ transfers' = transfers

(* C9: transfer(A, A, amount) fails for every amount and balance, and         *)
(* transfer(A, B, amount) fails for every amount <= 0; both with the          *)
(* invalid-amount or self-transfer reason, also when the balance is too low,  *)
(* and neither changes a balance or appends a row.                            *)
C9_InvalidTransfer == [][C9_Step]_vars

\* a self-transfer of more than the sender holds was refused as a self-transfer
C9_Witness ==
    /\ ret.reason = "self"
    /\ select_balance(users, ret.from_id) < ret.amount_cents

(* C10, as stated: a transfer_balance call that fails a check leaves the      *)
(* whole persisted state unchanged, the set of account rows included.         *)
C10_RejectedTransferChangesNothing ==
    [][(TransferStep /\ ~ret'.ok) =>
            /\ users' = users
            /\ DOMAIN users' = DOMAIN users
            /\ transfers' = transfers]_vars

\* a refused call changes no balance and no row of transfers; refused for the
\* amount or as a self-transfer it leaves the users table as it is, refused for
\* the balance it leaves the rows it had plus those of sender and receiver
C10_Step ==
    (TransferStep /\ ~ret'.ok) =>
        /\ transfers' = transfers
        /\ BalancesUnchanged
        /\ \A u \in DOMAIN users : u \in DOMAIN users' /\ users'[u] = users[u]
        /\ ret'.reason \in {"amount", "self"} => users' = users
        /\ ret'.reason = "insufficient" =>
                DOMAIN users' = DOMAIN users \cup {ret'.from_id, ret'.to_id}

(* C10, amended: a transfer_balance call that fails a check changes no        *)
(* balance (an absent account reads as zero) and appends no row; one refused  *)
(* for its amount or as a self-transfer creates no account row, one refused   *)
(* for insufficient balance may create the sender's and the receiver's rows,  *)
(* at zero, and no other.                                                     *)
C10_RejectedTransferKeepsBalances == [][C10_Step]_vars

\* the first call on the empty database was refused for the balance and left
\* the two rows it created
C10_Witness ==
    /\ nops = 1
    /\ ret.reason = "insufficient"
    /\ DOMAIN users = {ret.from_id, ret.to_id}

\* ---------------------------------------------------------------- C11
\* the purchase of p went through alone on its buyer's account: nothing but its
\* own debit touched the account since the balance was read at confirm
Undisturbed(p) == AccountEvents(proc[p].user) = proc[p].ev0 + 1

(* C11: a purchase that was delivered, with no other operation on the buyer's *)
(* account since its balance check, leaves the balance at the balance read    *)
(* at the check minus the price, has one record of its own (the one event on  *)
(* the account), carrying the buyer, the item and the price, and has no       *)
(* refund; a balance equal to the price ends at zero.                         *)
C11_SuccessfulPurchase ==
    \A p \in Procs :
        (proc[p].delivered /\ Undisturbed(p)) =>
            LET me == proc[p] IN
            /\ select_balance(users, me.user) = me.bal - me.price
            /\ me.bal = me.price => select_balance(users, me.user) = 0
            /\ me.pid \in 1..Len(purchases)
            /\ purchases[me.pid].discord_id = me.user
            /\ purchases[me.pid].item_id = me.item_id
            /\ purchases[me.pid].price_cents = me.price
            /\ \A q \in Procs \ {p} : proc[q].pid # me.pid
            /\ ~me.refunded

\* a delivered purchase that spent the whole of a non-zero balance
C11_Witness ==
    \E p \in Procs :
        /\ proc[p].delivered /\ Undisturbed(p)
        /\ proc[p].price = 2 /\ proc[p].bal = 2
        /\ select_balance(users, proc[p].user) = 0

\* ---------------------------------------------------------------- C12
\* a step of p that runs the checks of selection (from idle) or of confirm (from
\* view)
CheckStep(p) ==
    /\ proc[p].pc \in {"idle", "view"}
    /\ proc'[p] # proc[p]
    /\ proc'[p].out # "crashed"

\* what the balance check of that step sees: the shop open, the item on sale,
\* and the buyer's balance below its price
ShortAtCheck(p) ==
    LET u == proc'[p].user
        i == proc'[p].item_id
    IN  /\ shop_open
        /\ i \in DOMAIN items
        /\ items[i].is_active
        /\ select_balance(users, u) < items[i].price_cents

C12_Step ==
    \A p \in Procs :
        (CheckStep(p) /\ ShortAtCheck(p)) =>
            LET u == proc'[p].user
                i == proc'[p].item_id
            IN  /\ proc'[p].pc = "done"
                /\ proc'[p].out = "InsufficientFunds"
                /\ proc'[p].need = <<fmt_thb(items[i].price_cents - select_balance(users, u))>>
                /\ ~proc'[p].debited
                /\ purchases' = purchases
                /\ \A v \in Users : select_balance(users', v) = select_balance(users, v)

(* C12: a balance check, at selection or at confirm, that finds the balance   *)
(* below the price ends the purchase with InsufficientFunds, names the        *)
(* shortfall price - balance, debits nothing, writes no record and starts no  *)
(* fetch.                                                                     *)
C12_InsufficientFunds == [][C12_Step]_vars

\* ---------------------------------------------------------------- C13
\* a step of p that runs the checks of the confirm button
ConfirmStep(p) ==
    /\ proc[p].pc = "view"
    /\ proc'[p] # proc[p]
    /\ proc'[p].out # "crashed"

C13_Step ==
    \A p \in Procs :
        ConfirmStep(p) =>
            LET i == proc[p].item_id
                gone == i \notin DOMAIN items \/ ~items[i].is_active
            IN  /\ gone => proc'[p].out = "ItemUnavailable"
                /\ (~gone /\ ~shop_open) => proc'[p].out = "ShopClosed"
                /\ (gone \/ ~shop_open) =>
                        /\ proc'[p].pc = "done"
                        /\ ~proc'[p].debited
                        /\ purchases' = purchases
                        /\ users' = users

(* C13: the confirm step looks the item and the shop-open setting up again:   *)
(* with the item deleted or deactivated since the selection it ends with      *)
(* ItemUnavailable, else with the shop closed it ends with ShopClosed, and    *)
(* in both cases it debits nothing, writes no record and starts no fetch.     *)
C13_ConfirmRevalidates == [][C13_Step]_vars

\* a confirm refused because the item chosen at selection has since been
\* deactivated
C13_Witness ==
    \E p \in Procs :
        /\ proc[p].pressed
        /\ proc[p].out = "ItemUnavailable"
        /\ proc[p].item_id \in DOMAIN items
        /\ ~items[proc[p].item_id].is_active
        /\ ~proc[p].debited

\* ---------------------------------------------------------------- C14
\* the price of every debited purchase is the one its record carries, and the
\* balance read with it covered it
C14_Snapshot ==
    \A p \in Procs :
        proc[p].debited =>
            /\ proc[p].pid \in 1..Len(purchases)
            /\ purchases[proc[p].pid].price_cents = proc[p].price
            /\ proc[p].bal >= proc[p].price

C14_Step ==
    \A p \in Procs :
        LET u == proc[p].user IN
        \* the confirm check that passes reads the price from the item
        /\ (proc[p].pc = "view" /\ proc'[p].pc = "await_edit") =>
                proc'[p].price = items[proc[p].item_id].price_cents
        \* from then on no step changes it, whatever happens to the item
        /\ proc[p].pc \notin {"idle", "view"} => proc'[p].price = proc[p].price
        \* the debit takes it and the record stores it
        /\ (~proc[p].debited /\ proc'[p].debited) =>
                /\ select_balance(users', u) = select_balance(users, u) - proc[p].price
                /\ purchases'[proc'[p].pid].price_cents = proc[p].price
        \* the refund gives it back
        /\ (~proc[p].refunded /\ proc'[p].refunded) =>
                select_balance(users', u) = select_balance(users, u) + proc[p].price

(* C14: the price a purchase is compared with, debited by, recorded with and  *)
(* refunded by is one value, read from the item once at the confirm check;    *)
(* an edit, deactivation or deletion of the item during the fetch changes     *)
(* none of the four.                                                          *)
C14_PriceSnapshot == [](C14_Snapshot) /\ [][C14_Step]_vars

\* a purchase refunded at its own price after the item's price was changed
\* while it was being fetched
C14_Witness ==
    \E p \in Procs :
        /\ proc[p].refunded
        /\ proc[p].item_id \in DOMAIN items
        /\ items[proc[p].item_id].price_cents # proc[p].price
        /\ purchases[proc[p].pid].price_cents = proc[p].price

\* ---------------------------------------------------------------- C15
C15_Step ==
    /\ Len(purchases') >= Len(purchases)
    /\ \A k \in 1..Len(purchases) :
            /\ purchases'[k].discord_id = purchases[k].discord_id
            /\ purchases'[k].item_id = purchases[k].item_id
            /\ purchases'[k].price_cents = purchases[k].price_cents
            /\ purchases'[k].created_at = purchases[k].created_at

(* C15: the purchases table only grows at its end: no step removes a row or   *)
(* changes the buyer, the item id, the price or the timestamp of a row that   *)
(* is there, a refund of that purchase and the deletion of its item included. *)
C15_PurchaseLogAppendOnly == [][C15_Step]_vars

\* the row of a purchase that was refunded and whose item was then deleted is
\* still there, as written
C15_Witness ==
    \E p \in Procs :
        /\ proc[p].refunded
        /\ proc[p].item_id \notin DOMAIN items
        /\ proc[p].pid \in 1..Len(purchases)
        /\ purchases[proc[p].pid].item_id = proc[p].item_id
        /\ purchases[proc[p].pid].created_at < now_utc_iso

\* ---------------------------------------------------------------- C16
\* the handler that wrote row k of purchases
WriterOf(k) == {p \in Procs : proc[p].pid = k}

\* C16 as stated: a purchase has a record if and only if it was debited and not
\* refunded since, and every record is that of a purchase
C16_RecordIffDebitNotRefunded ==
    /\ \A p \in Procs :
            (proc[p].pid \in 1..Len(purchases)) <=> (proc[p].debited /\ ~proc[p].refunded)
    /\ \A k \in 1..Len(purchases) : WriterOf(k) # {}

(* C16, amended: a purchase has a record if and only if its debit was         *)
(* applied, whether or not a refund has reversed the debit since; every       *)
(* record is that of one debited purchase.                                    *)
C16_RecordIffDebit ==
    /\ \A p \in Procs : (proc[p].pid \in 1..Len(purchases)) <=> proc[p].debited
    /\ \A k \in 1..Len(purchases) :
            /\ Cardinality(WriterOf(k)) = 1
            /\ \A p \in WriterOf(k) : proc[p].debited

\* a refunded purchase: its balance is back and its record is still there
C16_Witness ==
    \E p \in Procs :
        /\ proc[p].debited /\ proc[p].refunded
        /\ proc[p].price = 2
        /\ proc[p].pid \in 1..Len(purchases)
        /\ purchases[proc[p].pid].price_cents = 2
        /\ select_balance(users, proc[p].user) = proc[p].bal

\* ---------------------------------------------------------------- C17
\* what has become of every file a download returned
C17_Sizes ==
    \A p \in Procs :
        LET me == proc[p] IN
        \* too large: not handed to target.send, refunded, its size named
        /\ me.size > MAX_UPLOAD_BYTES =>
                /\ me.sends = 0 /\ ~me.delivered
                /\ me.refunded
                /\ me.size_shown = <<fmt_mb(me.size)>>
                /\ me.out \in {"PayloadTooLarge", "crashed"}
        \* the reason is that of no other failure
        /\ me.out = "PayloadTooLarge" => me.size > MAX_UPLOAD_BYTES
        /\ me.out \in {"Timeout", "FetchError"} => me.size_shown = <<>>
        \* at most the maximum: handed to target.send
        /\ (me.size # 0 /\ me.size <= MAX_UPLOAD_BYTES) => me.sends = 1

\* the step that finds the file too large credits the price of the record
C17_Step ==
    \A p \in Procs :
        (proc[p].size = 0 /\ proc'[p].size > MAX_UPLOAD_BYTES) =>
            /\ proc'[p].out = "PayloadTooLarge"
            /\ select_balance(users', proc[p].user)
                    = select_balance(users, proc[p].user) + purchases[proc[p].pid].price_cents
            /\ \A v \in Users \ {proc[p].user} :
                    select_balance(users', v) = select_balance(users, v)

\* the size a message names is the byte count of the file: read back as
\* tenths of 2^20 bytes it gives the size
C17_ByteSize ==
    \A p \in Procs :
        proc[p].size_shown # <<>> =>
            proc[p].size_shown[1] * (1024 * 1024) = proc[p].size * 10

\* C17 as stated: a file too large is not sent, the purchase is refunded by the
\* price with the reason PayloadTooLarge, and the byte size of the file is
\* reported; a file that fits is sent
C17_PayloadTooLargeInBytes == [](C17_Sizes /\ C17_ByteSize) /\ [][C17_Step]_vars

(* C17, amended: a downloaded file larger than MAX_UPLOAD_BYTES is never      *)
(* handed to the destination: the purchase is refunded by exactly the price   *)
(* debited, with the reason PayloadTooLarge, which no timeout and no fetch    *)
(* error carries, and the message names the size of the file in megabytes     *)
(* rounded to one decimal; a file of at most MAX_UPLOAD_BYTES is sent.        *)
C17_PayloadTooLarge == [](C17_Sizes) /\ [][C17_Step]_vars

\* one byte over the limit: refunded at price 2; exactly at the limit: delivered
C17_Witness ==
    \E p, q \in Procs :
        /\ proc[p].out = "PayloadTooLarge"
        /\ proc[p].size = MAX_UPLOAD_BYTES + 1
        /\ proc[p].size_shown = <<240>>
        /\ proc[p].refunded /\ proc[p].price = 2
        /\ proc[q].size = MAX_UPLOAD_BYTES
        /\ proc[q].delivered

\* ---------------------------------------------------------------- C18
\* what each purchase has done, counted
C18_Counts ==
    /\ Len(purchases) = Cardinality({p \in Procs : proc[p].debited})
    /\ \A p \in Procs :
        LET me == proc[p] IN
        \* one debit: one row, its own
        /\ me.debited => (me.pid \in 1..Len(purchases)
                          /\ \A q \in Procs \ {p} : proc[q].pid # me.pid)
        /\ me.fetches <= 1 /\ me.sends <= 1 /\ me.refunds <= 1
        /\ me.refunded <=> me.refunds = 1
        /\ me.delivered => (me.sends = 1 /\ me.fetches = 1)
        /\ ~(me.delivered /\ me.refunded)
        \* after a timeout, whether or not the thread has come to its end since
        /\ me.thread \in {"abandoned", "late"} =>
                /\ me.refunds = 1 /\ me.fetches = 1
                /\ me.sends = 0 /\ ~me.delivered

\* the step in which wait_for gives up is the step of the refund
C18_Step ==
    \A p \in Procs :
        (proc[p].thread = "running" /\ proc'[p].thread = "abandoned") =>
            /\ proc'[p].pc = "report_fail"
            /\ proc'[p].out = "Timeout"
            /\ proc'[p].refunded
            /\ select_balance(users', proc[p].user)
                    = select_balance(users, proc[p].user) + proc[p].price

(* C18: a download that passes its deadline is given up and the purchase is   *)
(* refunded in the same step, with no second attempt: every purchase has one  *)
(* debit, at most one download, at most one send and at most one refund, and  *)
(* is never both delivered and refunded, also when the thread of the          *)
(* abandoned download comes to its end later.                                 *)
C18_NoRetry == [](C18_Counts) /\ [][C18_Step]_vars

\* a purchase refunded for the timeout whose download has since completed
C18_Witness ==
    \E p \in Procs :
        /\ proc[p].thread = "late"
        /\ proc[p].out = "Timeout"
        /\ proc[p].refunded /\ ~proc[p].delivered
        /\ proc[p].price = 2
        /\ select_balance(users, proc[p].user) = proc[p].bal

\* ---------------------------------------------------------------- C19
\* p has been debited and waits for its download
Fetching(p) == proc[p].pc = "await_download"

\* the next step of the interaction q of another account can be taken, wherever
\* q is in its purchase
C19_PurchaseEnabled(p, q) ==
    /\ (proc[q].pc = "idle" /\ item_seq >= 1 /\ \A e \in Earlier(q) : proc[e].pc # "idle") =>
            \A u \in Buyers \ {proc[p].user} : ENABLED Select(q, u, 1)
    /\ proc[q].user # proc[p].user =>
        /\ proc[q].pc = "view" => ENABLED ConfirmCheck(q)
        \* the debit, after which both accounts are in Fetching
        /\ proc[q].pc = "await_edit" =>
                ENABLED (ConfirmDebit(q, "channel", TRUE) /\ Fetching(p)' /\ Fetching(q)')
        /\ proc[q].pc = "await_create_dm" => ENABLED CreateDm(q, TRUE)
        /\ proc[q].pc = "await_download" =>
                ENABLED (Download(q, "ok", MAX_UPLOAD_BYTES) /\ Fetching(p)')
        /\ proc[q].pc = "await_send" => ENABLED (Send(q, TRUE) /\ Fetching(p)')
        /\ proc[q].pc \in {"report_fail", "report_ok"} =>
                ENABLED (Report(q) /\ proc'[q].pc = "done" /\ Fetching(p)')

\* the commands of the other accounts can be taken (while the model's budget
\* of commands lasts)
C19_CommandsEnabled(p) ==
    nops < MaxOps =>
        \A u \in Users \ {proc[p].user} :
            /\ ENABLED balance_cmd(u)
            /\ \A t \in Users \ {u}, a \in Amounts : ENABLED transfer_cmd(u, t, a)

(* C19: while the purchase of one account is in Fetching, the balance check,  *)
(* the transfer and every step of the purchase of any other account can be    *)
(* taken, up to its completion and with the first still in Fetching, however  *)
(* long the download takes; the debit of a second account puts both in        *)
(* Fetching at once.                                                          *)
C19_FetchBlocksNobody ==
    \A p \in Procs :
        Fetching(p) =>
            /\ C19_CommandsEnabled(p)
            /\ \A q \in Procs \ {p} : C19_PurchaseEnabled(p, q)

\* a purchase of another account, debited after p and delivered and reported
\* with p still in Fetching
C19_Witness ==
    \E p, q \in Procs :
        /\ Fetching(p)
        /\ proc[q].user # proc[p].user
        /\ proc[q].pid > proc[p].pid
        /\ proc[q].pc = "done" /\ proc[q].out = "Delivered"

\* ---------------------------------------------------------------- C20
\* the ids of the rows a history reply lists
Listed(h) == {h[j].id : j \in 1..Len(h)}

\* the steps that delete an existing item leave table purchases as it was
C20_Step ==
    (DOMAIN items' # DOMAIN items /\ DOMAIN items' \subseteq DOMAIN items) =>
        purchases' = purchases

\* every purchase of a buyer, up to the limit, is in the buyer's history,
\* whether its item still exists or not
C20_Listed ==
    \A u \in Users :
        LET mine == {k \in 1..Len(purchases) : purchases[k].discord_id = u} IN
        /\ Cardinality(mine) <= HISTORY_CMD_LIMIT =>
                Listed(get_my_purchases(purchases, items, u, HISTORY_CMD_LIMIT)) = mine
        /\ Cardinality(mine) <= HISTORY_BTN_LIMIT =>
                Listed(get_my_purchases(purchases, items, u, HISTORY_BTN_LIMIT)) = mine

(* C20: deleting an item that purchases refer to goes through and leaves      *)
(* their rows in place, and the history of a buyer still lists the purchases  *)
(* whose item has been deleted.                                               *)
C20_DeletedItemStaysInHistory == [](C20_Listed) /\ [][C20_Step]_vars

\* ---------------------------------------------------------------- C21
\* the ids of the rows of account u in table purchases
RecordsOf(u) == {k \in 1..Len(purchases) : purchases[k].discord_id = u}

\* the number of rows the last history call had to return
C21_Expected ==
    LET n == Cardinality(RecordsOf(hist.discord_id))
    IN  IF hist.limit < n THEN hist.limit ELSE n

(* C21: get_my_purchases(account, limit) returns rows of that account only,   *)
(* a row written later before every row written earlier, each with the price  *)
(* and the timestamp of its record, and it returns the min(limit, n) most     *)
(* recent of the n records of the account.                                    *)
C21_HistoryNewestFirst ==
    hist.n = 1 =>
        LET h == hist.rows
            mine == RecordsOf(hist.discord_id)
        IN  /\ \A j \in 1..Len(h) :
                    /\ h[j].id \in mine
                    /\ h[j].price_cents = purchases[h[j].id].price_cents
                    /\ h[j].created_at = purchases[h[j].id].created_at
            /\ \A i, j \in 1..Len(h) : i < j => h[i].id > h[j].id
            /\ Len(h) = C21_Expected
            /\ \A k \in mine : k \notin Listed(h) => \A j \in 1..Len(h) : h[j].id > k

\* ---------------------------------------------------------------- C22
\* the step is an admin command; adm' holds its caller and its arguments
AdminStep == adm'.n # adm.n

\* the caller of the command is the owner of the guild it was sent from
CallerIsOwner == adm'.guild # 0 /\ adm'.user = owner_id(adm'.guild)

\* is_admin is the disjunction of the three tests, for every user and context
C22_ThreeWays ==
    \A u \in Users, g \in CallerGuilds :
        is_admin(u, g, admins) <=>
            \/ u \in ADMIN_ENV_IDS
            \/ u \in admins
            \/ (g # 0 /\ u = owner_id(g))

C22_Step ==
    LET t == adm'.target IN
    /\ (AdminStep /\ adm'.cmd = "admin_grant" /\ CallerIsOwner) =>
            /\ admins' = admins \cup {t}
            /\ t \in admins => admins' = admins
    /\ (AdminStep /\ adm'.cmd = "admin_revoke" /\ CallerIsOwner) =>
            /\ admins' = admins \ {t}
            /\ \A g \in CallerGuilds :
                    is_admin(t, g, admins') <=>
                        (t \in ADMIN_ENV_IDS \/ (g # 0 /\ t = owner_id(g)))

(* C22: is_admin(user, context) holds exactly when the user is in             *)
(* ADMIN_ENV_IDS, or in table admins, or is the owner of the guild of the     *)
(* context; a grant adds the user to table admins and changes nothing when    *)
(* the user is there already; a revoke removes the user from table admins     *)
(* alone, after which the user is admin exactly when in ADMIN_ENV_IDS or      *)
(* owner.                                                                     *)
C22_IsAdmin == [](C22_ThreeWays) /\ [][C22_Step]_vars

\* user 2, of ADMIN_ENV_IDS, was granted and has just been revoked: no longer in
\* table admins and still admin, while user 3 is admin by the table alone
C22_Witness ==
    /\ adm.cmd = "admin_revoke" /\ adm.target = 2
    /\ admins = {3}
    /\ is_admin(2, 0, admins)
    /\ is_admin(3, 0, admins)
    /\ ~is_admin(1, 0, admins) /\ is_admin(1, 1, admins)

\* ---------------------------------------------------------------- C25
\* the caller of the command passes none of the three admin tests when it is made
CallerNotAdmin ==
    /\ ~(adm'.guild # 0 /\ adm'.user = owner_id(adm'.guild))
    /\ adm'.user \notin ADMIN_ENV_IDS
    /\ adm'.user \notin admins

TablesUnchanged ==
    /\ users' = users /\ items' = items /\ item_seq' = item_seq
    /\ purchases' = purchases /\ transfers' = transfers /\ shop_open' = shop_open
    /\ admins' = admins /\ gsettings' = gsettings

C25_Step ==
    /\ (AdminStep /\ adm'.cmd \notin {"admin_grant", "admin_revoke"} /\ CallerNotAdmin) =>
            TablesUnchanged
    /\ (AdminStep /\ adm'.cmd \in {"admin_grant", "admin_revoke"} /\ ~CallerIsOwner) =>
            TablesUnchanged

(* C25: a command behind require_admin (items, balances, shop_open, channel   *)
(* settings) made by a caller who is neither owner nor in ADMIN_ENV_IDS nor   *)
(* in table admins leaves every table as it was; admin_grant and              *)
(* admin_revoke leave every table as it was unless the caller is the owner    *)
(* of the guild, whatever other admin rights the caller has.                  *)
C25_PrivilegedOnly == [][C25_Step]_vars

\* user 3, admin by a grant, tried to grant user 1 from guild 2, which user 2
\* owns: table admins still holds user 3 alone
C25_Witness ==
    /\ adm.cmd = "admin_grant" /\ adm.user = 3 /\ adm.guild = 2 /\ adm.target = 1
    /\ admins = {3}
    /\ is_admin(3, 2, admins)

\* ---------------------------------------------------------------- balances never negative
\* every admin_add_balance so far added Deltas' non-negative amount
OnlyNonNegativeAdjustments == \A u \in Users : topups[u].sum = 2 * topups[u].n

(* C23: when every price is non-negative and every admin adjustment so far    *)
(* was non-negative, every account's balance is non-negative in every         *)
(* reachable state, whatever the interleaving of the handlers.                *)
C23_BalancesNeverNegative ==
    (OnlyNonNegativeAdjustments /\ \A i \in DOMAIN items : items[i].price_cents >= 0)
        => \A u \in DOMAIN users : select_balance(users, u) >= 0

\* ---------------------------------------------------------------- deliver_file returns
\* the handler is inside deliver_file, suspended at one of its awaits
InDeliverFile(p) == proc[p].pc \in {"await_create_dm", "await_download", "await_send"}

(* C24: deliver_file never raises to the purchase handler: whatever the        *)
(* outcome of the step it is suspended at (opening the DM, the download, the   *)
(* size check, the send), it goes on to its next step or returns, and the      *)
(* handler is then in its success branch or in its refund branch.              *)
C24_Step ==
    \A p \in Procs :
        (InDeliverFile(p) /\ proc'[p].pc # proc[p].pc /\ proc'[p].out # "crashed")
            => \/ proc'[p].pc \in {"await_download", "await_send"}
               \/ proc'[p].pc = "report_ok" /\ proc'[p].delivered
               \/ proc'[p].pc = "report_fail" /\ proc'[p].refunded
C24_DeliverFileNeverRaises == [][C24_Step]_vars

\* ---------------------------------------------------------------- item ids
\* the step is a call of the catalog store; adm' holds it
CatalogStep == adm'.n # adm.n
CreatedIds == DOMAIN items' \ DOMAIN items
PurchasedIds == {purchases[k].item_id : k \in 1..Len(purchases)}

\* every id the table holds or a purchase row names was assigned by an insert
C26_Assigned == (DOMAIN items \cup PurchasedIds) \subseteq 1..item_seq

C26_Step ==
    /\ (CatalogStep /\ adm'.cmd = "upsert_item_new") =>
            \E id \in DOMAIN items' :
                /\ CreatedIds = {id}
                /\ id > item_seq /\ item_seq' = id
                /\ \A j \in DOMAIN items \cup PurchasedIds : id > j
                /\ items'[id].is_active
                /\ \A j \in DOMAIN items : items'[j] = items[j]
    /\ (CatalogStep /\ adm'.cmd # "upsert_item_new") => (CreatedIds = {} /\ item_seq' = item_seq)
    /\ (CatalogStep /\ adm'.cmd = "upsert_item" /\ ~has_item(items, adm'.target)) =>
            items' = items

(* C26: item ids are unique, increase strictly in creation order and are      *)
(* never reused: a created item gets an id above every id ever assigned, the   *)
(* deleted ones included, so no purchase row names the new item; it is        *)
(* active; and upsert_item on an id the table does not hold changes nothing    *)
(* and creates nothing.                                                        *)
C26_ItemIds == [](C26_Assigned) /\ [][C26_Step]_vars

\* item 1 was bought and deleted, and the next insert made item 2
C26_Witness ==
    /\ adm.cmd = "upsert_item_new"
    /\ DOMAIN items = {2} /\ items[2].is_active
    /\ 1 \in PurchasedIds

\* ---------------------------------------------------------------- prices
(* C27: after any sequence of admin_add_item and admin_edit_item every item   *)
(* of the catalog has a price >= 0.                                           *)
C27_PricesNonNegative == \A i \in DOMAIN items : items[i].price_cents >= 0

\* ---------------------------------------------------------------- lazy accounts
\* the step is a direct get_balance call: a call that is neither add_balance
\* (topups) nor transfer_balance (ret)
GetBalanceStep == nops' # nops /\ topups' = topups /\ ret'.n = ret.n

\* ensure_user on the table as it is: the account is there afterwards, at zero
\* when it was absent, every existing balance is what it was, and a second
\* ensure_user changes nothing
C28_Ensure ==
    \A u \in Users :
        LET t == ensure_user(users, u) IN
            /\ DOMAIN t = DOMAIN users \cup {u}
            /\ \A w \in DOMAIN users : t[w] = users[w]
            /\ u \notin DOMAIN users => t[u] = 0
            /\ ensure_user(t, u) = t

\* get_balance returns the balance held, zero for an absent account, and the
\* same value when called again
C28_GetBalance ==
    \A u \in Users :
        /\ get_balance(users, u) = select_balance(users, u)
        /\ get_balance(get_balance_tbl(users, u), u) = get_balance(users, u)

\* add_balance and transfer_balance, which ensure the accounts first, change an
\* existing balance by the amount only
C28_EnsureInside ==
    \A u \in Users :
        /\ \A cents \in AnyDeltas :
                select_balance(add_balance(users, u, cents), u) = select_balance(users, u) + cents
        /\ \A t \in Users \ {u}, a \in AnyAmounts :
                LET r == transfer_balance(users, transfers, u, t, a)
                    d == IF r.ok THEN a ELSE 0
                IN  /\ select_balance(r.users, u) = select_balance(users, u) - d
                    /\ select_balance(r.users, t) = select_balance(users, t) + d

C28_Step ==
    /\ DOMAIN users \subseteq DOMAIN users'
    /\ GetBalanceStep =>
            /\ \A w \in DOMAIN users : users'[w] = users[w]
            /\ \A w \in DOMAIN users' \ DOMAIN users : users'[w] = 0

(* C28: lazy account creation is idempotent and never alters an existing      *)
(* account: get_balance on an absent account creates it at zero and returns   *)
(* zero; the creation step of get_balance, add_balance and transfer_balance    *)
(* never changes an existing balance; get_balance called again returns the     *)
(* same value; and no call removes an account.                                 *)
C28_LazyAccounts == [](C28_Ensure /\ C28_GetBalance /\ C28_EnsureInside) /\ [][C28_Step]_vars

\* account 1 holds 2 after one add_balance, and two get_balance calls were
\* made, both on account 1
C28_Witness ==
    /\ nops = 3 /\ ret.n = 0
    /\ topups[1].n = 1 /\ \A u \in Users \ {1} : topups[u].n = 0
    /\ DOMAIN users = {1} /\ users[1] = 2

====
